---- MODULE Spec2Model ----
(***************************************************************************)
(* Model of the task scoring engine of backend/tasks/scoring.py:           *)
(* normalize_tasks, _build_graph, detect_cycles, the four factor           *)
(* calculators and score_tasks with its ranking sort, driven as            *)
(* views.analyze_tasks drives them (normalize, then score).                *)
(*                                                                         *)
(* Representation.                                                         *)
(*   - A date is its proleptic Gregorian ordinal (date.toordinal()); an    *)
(*     ISO date string is the triple <<year, month, day>>, whose           *)
(*     lexicographic order is the order of the zero padded strings.        *)
(*   - Floats are fixed point: a factor in 0..1 is an integer number of    *)
(*     1/Scale, a weighted base a number of 1/(100*Scale), a score a       *)
(*     number of hundredths (round(final * 100, 2)).                       *)
(*   - A raw JSON value is a record [kind, n, ymd, items].                 *)
(*   - A strategy name is a sequence of one-character strings.             *)
(*   - The title and the explanation text of a record are carried through  *)
(*     by the code unchanged and take part in no decision; they are left   *)
(*     out of the records.                                                 *)
(***************************************************************************)
EXTENDS Integers, Sequences, FiniteSets, TLC

VARIABLES pc, raw, strategy, today, tasks, warnings, result

vars == <<pc, raw, strategy, today, tasks, warnings, result>>

\* Optional[...] = None of a NormalizedTask field (dates, hours and
\* importance are all >= 1 when present).
NONE == 0

\* Resolution of the fixed point factors.
Scale == 10 ^ 5

\* ------------------------------------------------------------------------
\* Bounds of the model
\* ------------------------------------------------------------------------
\* Largest batch.
MaxTasks == 3
\* Longest dependency list of a graph batch.
MaxDeps == 2

\* ------------------------------------------------------------------------
\* Small helpers
\* ------------------------------------------------------------------------
Min(a, b) == IF a <= b THEN a ELSE b

Max(a, b) == IF a >= b THEN a ELSE b

Range(s) == {s[i] : i \in 1..Len(s)}

\* Lexicographic "less than" of two integer sequences of the same length.
RECURSIVE LexLess(_, _)
LexLess(a, b) ==
    IF a = <<>> \/ b = <<>> THEN FALSE
    ELSE IF Head(a) # Head(b) THEN Head(a) < Head(b)
    ELSE LexLess(Tail(a), Tail(b))

\* ------------------------------------------------------------------------
\* Calendar (datetime.date as used by the code)
\* ------------------------------------------------------------------------
IsLeap(y) == (y % 4 = 0) /\ ((y % 100 # 0) \/ (y % 400 = 0))

DaysInMonth(y, m) ==
    IF m = 2 THEN (IF IsLeap(y) THEN 29 ELSE 28)
    ELSE IF m \in {4, 6, 9, 11} THEN 30 ELSE 31

\* days of the year before the first of month m
DaysBeforeMonth(y, m) ==
    <<0, 31, 59, 90, 120, 151, 181, 212, 243, 273, 304, 334>>[m]
    + (IF m > 2 /\ IsLeap(y) THEN 1 ELSE 0)

DaysBeforeYear(y) ==
    (y - 1) * 365 + ((y - 1) \div 4) - ((y - 1) \div 100) + ((y - 1) \div 400)

\* date(y, m, d).toordinal()
Ymd2Ord(ymd) ==
    DaysBeforeYear(ymd[1]) + DaysBeforeMonth(ymd[1], ymd[2]) + ymd[3]

\* date.fromordinal(n) as <<year, month, day>>
Ord2Ymd(n) ==
    LET n0   == n - 1
        n400 == n0 \div 146097
        r400 == n0 % 146097
        n100 == r400 \div 36524
        r100 == r400 % 36524
        n4   == r100 \div 1461
        r4   == r100 % 1461
        n1   == r4 \div 365
        r1   == r4 % 365
        year == n400 * 400 + 1 + n100 * 100 + n4 * 4 + n1
        est  == (r1 + 50) \div 32
        month == IF DaysBeforeMonth(year, est) > r1 THEN est - 1 ELSE est
    IN  IF n1 = 4 \/ n100 = 4 THEN <<year - 1, 12, 31>>
        ELSE <<year, month, r1 - DaysBeforeMonth(year, month) + 1>>

\* date.weekday(): Monday = 0 ... Sunday = 6
Weekday(n) == (n + 6) % 7

\* A <<y, m, d>> that date.fromisoformat accepts.
ValidYmd(ymd) ==
    /\ ymd[1] \in 1..9999
    /\ ymd[2] \in 1..12
    /\ ymd[3] >= 1
    /\ ymd[3] <= DaysInMonth(ymd[1], ymd[2])

\* ------------------------------------------------------------------------
\* Raw (untyped) input values
\* ------------------------------------------------------------------------
\* kind: "absent" (key missing), "none" (null), "emptystr" (""),
\* "emptylist" ([]), "str" (text that is neither a number nor a date),
\* "numstr" (the decimal text of n), "datestr" (the text YYYY-MM-DD of ymd),
\* "int" (the number n), "list" (a non-empty list of items).
RawVal(k, n, ymd, items) == [kind |-> k, n |-> n, ymd |-> ymd, items |-> items]

Absent == RawVal("absent", 0, <<>>, <<>>)

Null == RawVal("none", 0, <<>>, <<>>)

EmptyStr == RawVal("emptystr", 0, <<>>, <<>>)

EmptyList == RawVal("emptylist", 0, <<>>, <<>>)

Text == RawVal("str", 0, <<>>, <<>>)

NumStr(n) == RawVal("numstr", n, <<>>, <<>>)

DateStr(ymd) == RawVal("datestr", 0, ymd, <<>>)

Num(n) == RawVal("int", n, <<>>, <<>>)

List(items) == IF items = <<>> THEN EmptyList ELSE RawVal("list", 0, <<>>, items)

\* dict.get(key): a missing key reads as None
Get(v) == IF v.kind = "absent" THEN Null ELSE v

\* value in (None, "", [])
InNoneEmptyStrEmptyList(v) == v.kind \in {"none", "emptystr", "emptylist"}

\* value in (None, "")
InNoneEmptyStr(v) == v.kind \in {"none", "emptystr"}

\* bool(value) is False
Falsy(v) == v.kind \in {"none", "emptystr", "emptylist"} \/ (v.kind = "int" /\ v.n = 0)

\* int(value) / float(value) returns instead of raising
Numeric(v) == v.kind \in {"int", "numstr"}

\* isinstance(value, list)
IsList(v) == v.kind \in {"list", "emptylist"}

\* ------------------------------------------------------------------------
\* Normalization helpers
\* ------------------------------------------------------------------------
ParseDate(v) ==
    IF InNoneEmptyStrEmptyList(v) THEN NONE
    ELSE IF v.kind = "datestr" /\ ValidYmd(v.ymd) THEN Ymd2Ord(v.ymd)
    ELSE NONE

ParseFloat(v) ==
    IF InNoneEmptyStr(v) THEN NONE
    ELSE IF Numeric(v) THEN (IF v.n <= 0 THEN NONE ELSE v.n)
    ELSE NONE

ClampInt(v, lo, hi) ==
    IF InNoneEmptyStr(v) THEN NONE
    ELSE IF Numeric(v) THEN Max(lo, Min(hi, v.n))
    ELSE NONE

\* A warning string: "Task at index <ref>: ..." (at = "index") or
\* "Task <ref>: ..." (at = "task"), then the words of text.
Warning(at, ref, text) == [at |-> at, ref |-> ref, text |-> text]

\* tid of the record at 0-based index idx
TaskId(t, idx) ==
    IF t.id.kind = "absent" THEN idx + 1
    ELSE IF Numeric(t.id) THEN t.id.n
    ELSE idx + 1

IdWarnings(t, idx) ==
    IF t.id.kind # "absent" /\ ~Numeric(t.id)
    THEN <<Warning("index", idx, <<"invalid", "id", "->", "auto-assigned">>)>>
    ELSE <<>>

DueWarnings(t, tid) ==
    IF ~InNoneEmptyStrEmptyList(Get(t.due_date)) /\ ParseDate(Get(t.due_date)) = NONE
    THEN <<Warning("task", tid, <<"invalid", "due_date", "->", "treated", "as", "missing">>)>>
    ELSE <<>>

HoursWarnings(t, tid) ==
    IF ~InNoneEmptyStrEmptyList(Get(t.estimated_hours))
       /\ ParseFloat(Get(t.estimated_hours)) = NONE
    THEN <<Warning("task", tid,
             <<"estimated_hours", "must", "be", "a", "positive", "number",
               "->", "treated", "as", "missing">>)>>
    ELSE <<>>

ImportanceWarnings(t, tid) ==
    IF ~InNoneEmptyStrEmptyList(Get(t.importance))
       /\ ClampInt(Get(t.importance), 1, 10) = NONE
    THEN <<Warning("task", tid, <<"invalid", "importance", "->", "treated", "as", "missing">>)>>
    ELSE <<>>

\* deps_raw = t.get("dependencies") or []
DepsRaw(t) ==
    IF Falsy(Get(t.dependencies)) THEN EmptyList ELSE Get(t.dependencies)

RECURSIVE DepItems(_)
DepItems(items) ==
    IF items = <<>> THEN <<>>
    ELSE (IF Numeric(Head(items)) THEN <<Head(items).n>> ELSE <<>>)
         \o DepItems(Tail(items))

RECURSIVE DepItemWarnings(_, _)
DepItemWarnings(items, tid) ==
    IF items = <<>> THEN <<>>
    ELSE (IF Numeric(Head(items)) THEN <<>>
          ELSE <<Warning("task", tid, <<"dependency", "invalid", "->", "ignored">>)>>)
         \o DepItemWarnings(Tail(items), tid)

Deps(t) == IF IsList(DepsRaw(t)) THEN DepItems(DepsRaw(t).items) ELSE <<>>

DepsWarnings(t, tid) ==
    IF ~IsList(DepsRaw(t))
    THEN <<Warning("task", tid, <<"dependencies", "is", "not", "a", "list", "->", "ignored">>)>>
    ELSE DepItemWarnings(DepsRaw(t).items, tid)

\* One pass of the loop body of normalize_tasks: the NormalizedTask ...
NormalizedTask(t, idx) ==
    [id              |-> TaskId(t, idx),
     due_date        |-> ParseDate(Get(t.due_date)),
     estimated_hours |-> ParseFloat(Get(t.estimated_hours)),
     importance      |-> ClampInt(Get(t.importance), 1, 10),
     dependencies    |-> Deps(t)]

\* ... and the warnings it appends, in the order the code appends them.
TaskWarnings(t, idx) ==
    IdWarnings(t, idx)
    \o DueWarnings(t, TaskId(t, idx))
    \o HoursWarnings(t, TaskId(t, idx))
    \o ImportanceWarnings(t, TaskId(t, idx))
    \o DepsWarnings(t, TaskId(t, idx))

RECURSIVE AllWarnings(_, _)
AllWarnings(rs, idx) ==
    IF idx >= Len(rs) THEN <<>>
    ELSE TaskWarnings(rs[idx + 1], idx) \o AllWarnings(rs, idx + 1)

\* normalize_tasks(raw_tasks) = <<tasks, warnings>>
NormalizeTasksList(rs) == [i \in 1..Len(rs) |-> NormalizedTask(rs[i], i - 1)]

NormalizeTasksWarnings(rs) == AllWarnings(rs, 0)

\* ------------------------------------------------------------------------
\* Graph utilities
\* ------------------------------------------------------------------------
\* The keys of {t.id: t for t in tasks}, in insertion order: each id once,
\* at the place of its first task.
RECURSIVE IdOrder(_)
IdOrder(ts) ==
    IF ts = <<>> THEN <<>>
    ELSE LET front == IdOrder(SubSeq(ts, 1, Len(ts) - 1))
             last  == ts[Len(ts)].id
         IN  IF last \in Range(front) THEN front ELSE Append(front, last)

\* tasks_by_id[k]: the last task of the batch with that id.
TasksById(ts) ==
    [k \in {ts[i].id : i \in 1..Len(ts)} |->
        ts[CHOOSE i \in 1..Len(ts) :
              /\ ts[i].id = k
              /\ \A j \in (i + 1)..Len(ts) : ts[j].id # k]]

\* [d for d in deps if d in tasks_by_id]
KnownDeps(deps, ids) == SelectSeq(deps, LAMBDA d : d \in ids)

\* forward: task -> its dependencies that are ids of the batch
Forward(ts) ==
    LET byId == TasksById(ts)
    IN  [k \in DOMAIN byId |-> KnownDeps(byId[k].dependencies, DOMAIN byId)]

\* for dep in deps: reverse[dep].append(tid)
RECURSIVE ReverseAppend(_, _, _)
ReverseAppend(rev, tid, deps) ==
    IF deps = <<>> THEN rev
    ELSE ReverseAppend([rev EXCEPT ![Head(deps)] = Append(@, tid)], tid, Tail(deps))

\* for tid, deps in forward.items(): ...
RECURSIVE ReverseLoop(_, _, _)
ReverseLoop(rev, keys, fwd) ==
    IF keys = <<>> THEN rev
    ELSE ReverseLoop(ReverseAppend(rev, Head(keys), fwd[Head(keys)]), Tail(keys), fwd)

\* reverse: dep -> tasks that depend on dep
Reverse(ts) ==
    LET fwd == Forward(ts)
    IN  ReverseLoop([k \in DOMAIN fwd |-> <<>>], IdOrder(ts), fwd)

\* stack.index(v): the first position of v
IndexOf(stack, v) == CHOOSE i \in 1..Len(stack) :
                        /\ stack[i] = v
                        /\ \A j \in 1..(i - 1) : stack[j] # v

\* detect_cycles.dfs(u) and its loop over tasks_by_id[u].dependencies.
\* st = [state, stack, cycles]; state: 0 = unvisited, 1 = visiting, 2 = visited.
RECURSIVE Dfs(_, _, _)
RECURSIVE DfsEdges(_, _, _, _)
Dfs(byId, u, st) ==
    LET entered == [st EXCEPT !.state[u] = 1, !.stack = Append(@, u)]
        looped  == DfsEdges(byId, u, byId[u].dependencies, entered)
    IN  [looped EXCEPT !.stack = SubSeq(@, 1, Len(@) - 1), !.state[u] = 2]

DfsEdges(byId, u, deps, st) ==
    IF deps = <<>> THEN st
    ELSE LET v == Head(deps)
         IN  IF v \notin DOMAIN byId THEN DfsEdges(byId, u, Tail(deps), st)
             ELSE IF st.state[v] = 0
                  THEN DfsEdges(byId, u, Tail(deps), Dfs(byId, v, st))
             ELSE IF st.state[v] = 1 /\ v \in Range(st.stack)
                  THEN DfsEdges(byId, u, Tail(deps),
                         [st EXCEPT !.cycles =
                             Append(@, Append(SubSeq(st.stack, IndexOf(st.stack, v),
                                                     Len(st.stack)), v))])
             ELSE DfsEdges(byId, u, Tail(deps), st)

\* for tid in tasks_by_id: if state.get(tid, 0) == 0: dfs(tid)
RECURSIVE DfsRoots(_, _, _)
DfsRoots(byId, keys, st) ==
    IF keys = <<>> THEN st
    ELSE DfsRoots(byId, Tail(keys),
                  IF st.state[Head(keys)] = 0 THEN Dfs(byId, Head(keys), st) ELSE st)

\* Mutant of DetectCycles: the traversal starts at the first task only.
DetectCyclesFirstRoot(ts) ==
    LET byId == TasksById(ts)
    IN  DfsRoots(byId, IF ts = <<>> THEN <<>> ELSE <<Head(IdOrder(ts))>>,
                 [state  |-> [k \in DOMAIN byId |-> 0],
                  stack  |-> <<>>,
                  cycles |-> <<>>]).cycles

\* detect_cycles(tasks_by_id): the list of cycles
DetectCycles(ts) ==
    LET byId == TasksById(ts)
    IN  DfsRoots(byId, IdOrder(ts),
                 [state  |-> [k \in DOMAIN byId |-> 0],
                  stack  |-> <<>>,
                  cycles |-> <<>>]).cycles

\* _cycle_nodes(cycles)
CycleNodes(cycles) == UNION {Range(cycles[i]) : i \in 1..Len(cycles)}

\* The while loop of _downstream_block_count.
RECURSIVE DownstreamLoop(_, _, _)
DownstreamLoop(stack, seen, rev) ==
    IF stack = <<>> THEN seen
    ELSE LET u    == stack[Len(stack)]
             rest == SubSeq(stack, 1, Len(stack) - 1)
         IN  IF u \in seen THEN DownstreamLoop(rest, seen, rev)
             ELSE DownstreamLoop(rest \o (IF u \in DOMAIN rev THEN rev[u] ELSE <<>>),
                                 seen \cup {u}, rev)

\* _downstream_block_count(task_id, reverse)
DownstreamBlockCount(task_id, rev) ==
    Cardinality(DownstreamLoop(IF task_id \in DOMAIN rev THEN rev[task_id] ELSE <<>>,
                               {}, rev))

\* ------------------------------------------------------------------------
\* Working days
\* ------------------------------------------------------------------------
INDIA_HOLIDAYS_FIXED == {<<1, 1>>, <<1, 26>>, <<5, 1>>, <<8, 15>>, <<10, 2>>, <<12, 25>>}

\* Mutant of IsNonWorkingDay: weekday() > 5, so Saturday is a working day.
IsNonWorkingDayButSaturday(candidate) ==
    \/ Weekday(candidate) > 5
    \/ LET ymd == Ord2Ymd(candidate)
       IN  <<ymd[2], ymd[3]>> \in INDIA_HOLIDAYS_FIXED

IsNonWorkingDay(candidate) ==
    \/ Weekday(candidate) >= 5
    \/ LET ymd == Ord2Ymd(candidate)
       IN  <<ymd[2], ymd[3]>> \in INDIA_HOLIDAYS_FIXED

\* while cursor < due: count the working days, cursor += 1 day
RECURSIVE WorkingDaysLoop(_, _, _)
WorkingDaysLoop(cursor, due, days) ==
    IF cursor < due
    THEN WorkingDaysLoop(cursor + 1, due,
                         IF IsNonWorkingDay(cursor) THEN days ELSE days + 1)
    ELSE days

WorkingDaysUntil(due, now) ==
    IF due < now THEN -1 ELSE WorkingDaysLoop(now, due, 0)

\* ------------------------------------------------------------------------
\* Scoring components (0..1 as 0..Scale)
\* ------------------------------------------------------------------------
Urgency(due, now) ==
    IF due = NONE THEN (25 * Scale) \div 100
    ELSE LET working_days == WorkingDaysUntil(due, now)
         IN  IF working_days < 0 THEN Scale
             ELSE (5 * Scale) \div (5 + working_days)

Importance(imp) ==
    LET v == IF imp # NONE THEN imp ELSE 5
    IN  ((v - 1) * Scale) \div 9

\* 1000 * log1p(h) for whole hours h = 1..10, rounded
Log1p(h) == <<693, 1099, 1386, 1609, 1792, 1946, 2079, 2197, 2303, 2398>>[h]

Quickwin(hours, max_hours) ==
    LET h == IF hours = NONE THEN 4 ELSE hours
    IN  IF max_hours <= 0 THEN (6 * Scale) \div 10
        ELSE Max(0, Min(Scale, Scale - ((Log1p(h) * Scale) \div Log1p(max_hours))))

BlockerCap == 8

BlockerScore(block_count) ==
    Max(0, Min(Scale, (block_count * Scale) \div BlockerCap))

\* ------------------------------------------------------------------------
\* Strategies
\* ------------------------------------------------------------------------
FastestWins == <<"f", "a", "s", "t", "e", "s", "t", "_", "w", "i", "n", "s">>

HighImpact == <<"h", "i", "g", "h", "_", "i", "m", "p", "a", "c", "t">>

DeadlineDriven ==
    <<"d", "e", "a", "d", "l", "i", "n", "e", "_", "d", "r", "i", "v", "e", "n">>

SmartBalance == <<"s", "m", "a", "r", "t", "_", "b", "a", "l", "a", "n", "c", "e">>

DEFAULT_STRATEGY == SmartBalance

\* weights in hundredths
Weights(u, i, q, b) == [urgency |-> u, importance |-> i, quickwin |-> q, blocker |-> b]

STRATEGY_WEIGHTS ==
    [k \in {FastestWins, HighImpact, DeadlineDriven, SmartBalance} |->
        IF k = FastestWins THEN Weights(15, 15, 60, 10)
        ELSE IF k = HighImpact THEN Weights(15, 65, 5, 15)
        ELSE IF k = DeadlineDriven THEN Weights(75, 20, 3, 2)
        ELSE Weights(40, 35, 15, 10)]

UpperCase == <<"A", "B", "C", "D", "E", "F", "G", "H", "I", "J", "K", "L", "M",
               "N", "O", "P", "Q", "R", "S", "T", "U", "V", "W", "X", "Y", "Z">>

LowerCase == <<"a", "b", "c", "d", "e", "f", "g", "h", "i", "j", "k", "l", "m",
               "n", "o", "p", "q", "r", "s", "t", "u", "v", "w", "x", "y", "z">>

Whitespace == {" ", "\t", "\n"}

\* Mutant of Lower: the name is compared as typed.
LowerAsTyped(name) == name

\* str.lower()
Lower(name) ==
    [i \in 1..Len(name) |->
        IF \E c \in 1..26 : UpperCase[c] = name[i]
        THEN LowerCase[CHOOSE c \in 1..26 : UpperCase[c] = name[i]]
        ELSE name[i]]

\* str.strip()
RECURSIVE LStrip(_)
LStrip(name) ==
    IF name # <<>> /\ Head(name) \in Whitespace THEN LStrip(Tail(name)) ELSE name

RECURSIVE RStrip(_)
RStrip(name) ==
    IF name # <<>> /\ name[Len(name)] \in Whitespace
    THEN RStrip(SubSeq(name, 1, Len(name) - 1)) ELSE name

Strip(name) == RStrip(LStrip(name))

\* strategy_key = (strategy or DEFAULT_STRATEGY).strip().lower()
\* A request's strategy is [given, name]: given = FALSE is None.
StrategyKey(s) ==
    Lower(Strip(IF s.given /\ s.name # <<>> THEN s.name ELSE DEFAULT_STRATEGY))

\* weights = STRATEGY_WEIGHTS.get(strategy_key, STRATEGY_WEIGHTS[DEFAULT_STRATEGY])
ResolveWeights(s) ==
    IF StrategyKey(s) \in DOMAIN STRATEGY_WEIGHTS
    THEN STRATEGY_WEIGHTS[StrategyKey(s)]
    ELSE STRATEGY_WEIGHTS[DEFAULT_STRATEGY]

\* the "strategy_used" entry of the result
StrategyUsed(s) == StrategyKey(s)

\* ------------------------------------------------------------------------
\* Main scoring
\* ------------------------------------------------------------------------
\* max([t.estimated_hours or 0 for t in tasks] + [1.0])
RECURSIVE MaxHours(_)
MaxHours(ts) ==
    IF ts = <<>> THEN 1
    ELSE Max(Head(ts).estimated_hours, MaxHours(Tail(ts)))

\* Mutant of Base: the blocker term is subtracted.
BaseMinusBlocker(t, w, now, max_hours, downstream) ==
    w.urgency * Urgency(t.due_date, now)
    + w.importance * Importance(t.importance)
    + w.quickwin * Quickwin(t.estimated_hours, max_hours)
    - w.blocker * BlockerScore(downstream)

\* base, in 1/(100 * Scale)
Base(t, w, now, max_hours, downstream) ==
    w.urgency * Urgency(t.due_date, now)
    + w.importance * Importance(t.importance)
    + w.quickwin * Quickwin(t.estimated_hours, max_hours)
    + w.blocker * BlockerScore(downstream)

\* Mutant of CyclePenalty: the penalty is added once per cycle holding the id.
CyclePenaltyPerCycle(t, cycles) ==
    15 * Cardinality({i \in 1..Len(cycles) : t.id \in Range(cycles[i])})

\* cycle_penalty, in hundredths
CyclePenalty(t, cycles) == IF t.id \in CycleNodes(cycles) THEN 15 ELSE 0

\* final = base * (1.0 - cycle_penalty)
Final(base, cycle_penalty) == (base * (100 - cycle_penalty)) \div 100

\* round(final * 100, 2), in hundredths of a point; ties go to the even digit
RoundScore(final) ==
    LET unit == Scale \div 100
        q    == final \div unit
        r    == final % unit
    IN  IF 2 * r > unit THEN q + 1
        ELSE IF 2 * r < unit THEN q
        ELSE IF q % 2 = 0 THEN q ELSE q + 1

\* t.due_date.isoformat() if t.due_date else None (None is <<>>)
IsoFormat(due) == IF due = NONE THEN <<>> ELSE Ord2Ymd(due)

\* the dictionary appended to scored for task t
Scored(t, w, now, max_hours, rev, cycles) ==
    LET downstream == DownstreamBlockCount(t.id, rev)
    IN  [id              |-> t.id,
         due_date        |-> IsoFormat(t.due_date),
         estimated_hours |-> t.estimated_hours,
         importance      |-> IF t.importance # NONE THEN t.importance ELSE 5,
         dependencies    |-> t.dependencies,
         dependents      |-> downstream,
         score           |-> RoundScore(Final(Base(t, w, now, max_hours, downstream),
                                              CyclePenalty(t, cycles)))]

\* Mutant of SortKey: the due date is left out of the key.
SortKeyWithoutDue(x) ==
    <<0 - x.score>> \o <<0 - (IF x.importance # 0 THEN x.importance ELSE 5)>>

\* _sort_key(x) = (-score, due or "9999-12-31", -(importance or 5)), flattened
SortKey(x) ==
    <<0 - x.score>>
    \o (IF x.due_date # <<>> THEN x.due_date ELSE <<9999, 12, 31>>)
    \o <<0 - (IF x.importance # 0 THEN x.importance ELSE 5)>>

\* list.sort(key=_sort_key): stable, ascending in the key
RECURSIVE SortInsert(_, _)
SortInsert(sorted, x) ==
    IF sorted = <<>> THEN <<x>>
    ELSE IF LexLess(SortKey(x), SortKey(Head(sorted))) THEN <<x>> \o sorted
    ELSE <<Head(sorted)>> \o SortInsert(Tail(sorted), x)

RECURSIVE Sort(_)
Sort(xs) ==
    IF xs = <<>> THEN <<>>
    ELSE SortInsert(Sort(SubSeq(xs, 1, Len(xs) - 1)), xs[Len(xs)])

\* Mutant of LoopTasks: "for t in tasks_by_id.values()".
LoopTasksById(ts) == [i \in 1..Len(IdOrder(ts)) |-> TasksById(ts)[IdOrder(ts)[i]]]

\* for t in tasks: the tasks the scoring loop visits
LoopTasks(ts) == ts

\* score_tasks(tasks, strategy=s, today=now)
ScoreTasks(ts, s, now) ==
    LET w         == ResolveWeights(s)
        rev       == Reverse(ts)
        cycles    == DetectCycles(ts)
        max_hours == MaxHours(ts)
    IN  [tasks         |-> Sort([i \in 1..Len(LoopTasks(ts)) |->
                                   Scored(LoopTasks(ts)[i], w, now, max_hours, rev, cycles)]),
         cycles        |-> cycles,
         strategy_used |-> StrategyUsed(s)]

\* ------------------------------------------------------------------------
\* The request: views.analyze_tasks
\* ------------------------------------------------------------------------
NoResult == [tasks |-> <<>>, cycles |-> <<>>, strategy_used |-> <<>>]

\* tasks, warnings = normalize_tasks(request.data)
Normalize ==
    /\ pc = "received"
    /\ tasks' = NormalizeTasksList(raw)
    /\ warnings' = NormalizeTasksWarnings(raw)
    /\ pc' = "normalized"
    /\ UNCHANGED <<raw, strategy, today, result>>

\* result = score_tasks(tasks, strategy=strategy)
Score ==
    /\ pc = "normalized"
    /\ result' = ScoreTasks(tasks, strategy, today)
    /\ pc' = "scored"
    /\ UNCHANGED <<raw, strategy, today, tasks, warnings>>

Next == Normalize \/ Score

\* A request before it is handled.
Received(rs, s, now) ==
    /\ pc = "received"
    /\ raw = rs
    /\ strategy = s
    /\ today = now
    /\ tasks = <<>>
    /\ warnings = <<>>
    /\ result = NoResult

RawTask(id, due, hours, imp, deps) ==
    [id |-> id, due_date |-> due, estimated_hours |-> hours,
     importance |-> imp, dependencies |-> deps]

\* All sequences over S of length lo..hi.
SeqsOf(S, lo, hi) == UNION {[1..n -> S] : n \in lo..hi}

Given(name) == [given |-> TRUE, name |-> name]

NotGiven == [given |-> FALSE, name |-> <<>>]

KnownStrategies == {Given(k) : k \in DOMAIN STRATEGY_WEIGHTS}

\* Wednesday 2025-10-01: the next day is a fixed holiday, then a weekend.
Oct1 == Ymd2Ord(<<2025, 10, 1>>)

\* Friday 9999-12-10: fifteen working days before the last date there is.
Dec10 == Ymd2Ord(<<9999, 12, 10>>)

\* ---- graph batches: ids (auto-assigned or 1) and dependency lists ------
DepLists == SeqsOf({Num(d) : d \in 1..MaxTasks}, 0, MaxDeps)

GraphTasks ==
    {RawTask(id, Absent, Absent, Absent, List(deps)) :
        id \in {Absent, Num(1)}, deps \in DepLists}

Init ==
    \E rs \in SeqsOf(GraphTasks, 0, MaxTasks), s \in KnownStrategies :
        Received(rs, s, Oct1)

Spec == Init /\ [][Next]_vars

\* ---- blocker batches: auto-assigned ids, importance, dependency lists ----
BlockerTasks ==
    {RawTask(Absent, Absent, Absent, imp, List(deps)) :
        imp \in {Absent, Num(8)}, deps \in DepLists}

InitBlocker ==
    \E rs \in SeqsOf(BlockerTasks, 0, MaxTasks), s \in KnownStrategies :
        Received(rs, s, Oct1)

SpecBlocker == InitBlocker /\ [][Next]_vars

\* ---- ranking batches: due dates around the reference date --------------
\* Days from the reference date to a due date: overdue, and dates that a
\* holiday or a weekend brings to the same number of working days.
DueOffsets == {-1, 1, 2, 21}

RankTasks(now) ==
    {RawTask(Absent, due, Absent, imp, Absent) :
        due \in {Absent} \cup {DateStr(Ord2Ymd(now + off)) : off \in DueOffsets},
        imp \in {Absent, Num(8)}}

InitRank ==
    \E now \in {Oct1, Dec10}, s \in KnownStrategies :
        \E rs \in SeqsOf(RankTasks(now), 0, MaxTasks) :
            Received(rs, s, now)

SpecRank == InitRank /\ [][Next]_vars

\* ---- strategy names ------------------------------------------------------
StrategyInputs ==
    {NotGiven,
     Given(<<>>),
     Given(<<" ">>),
     Given(SmartBalance),
     Given(<<"H", "I", "G", "H", "_", "I", "M", "P", "A", "C", "T">>),
     Given(<<"F", "a", "s", "t", "e", "s", "t", "_", "W", "i", "n", "s">>),
     Given(<<" ">> \o DeadlineDriven \o <<"\n">>),
     Given(<<"f", "o", "o">>),
     Given(<<"h", "i", "g", "h">>),
     Given(<<"s", "m", "a", "r", "t", "-", "b", "a", "l", "a", "n", "c", "e">>)}

StrategyTasks ==
    {RawTask(Absent, Absent, hours, imp, Absent) :
        hours \in {Absent, Num(2)}, imp \in {Absent, Num(8)}}

InitStrategy ==
    \E rs \in SeqsOf(StrategyTasks, 0, MaxTasks), s \in StrategyInputs :
        Received(rs, s, Oct1)

SpecStrategy == InitStrategy /\ [][Next]_vars

\* ---- malformed records ---------------------------------------------------
ValidDue == DateStr(<<2025, 10, 3>>)

\* A well-formed record, records with one field off, and the record of
\* tests.py (test_normalization_resilience).
MalformedTasks ==
    {RawTask(id, ValidDue, Num(2), Num(5), List(<<Num(1)>>)) :
        id \in {Absent, Null, Text, Num(2), NumStr(100)}}
    \cup {RawTask(Absent, due, Num(2), Num(5), List(<<Num(1)>>)) :
        due \in {Null, EmptyStr, Text, Num(5), DateStr(<<2025, 2, 30>>)}}
    \cup {RawTask(Absent, ValidDue, hours, Num(5), List(<<Num(1)>>)) :
        hours \in {Null, Text, Num(0), Num(-5), NumStr(3)}}
    \cup {RawTask(Absent, ValidDue, Num(2), imp, List(<<Num(1)>>)) :
        imp \in {Null, Text, Num(50), Num(0), List(<<Num(1)>>)}}
    \cup {RawTask(Absent, ValidDue, Num(2), Num(5), deps) :
        deps \in {Null, EmptyList, Text, Num(0), Num(7), List(<<Text, Num(2)>>)}}
    \cup {RawTask(NumStr(100), Text, Num(-5), Text, Text)}

InitMalformed ==
    \E rs \in SeqsOf(MalformedTasks, 0, MaxTasks) :
        Received(rs, Given(SmartBalance), Oct1)

SpecMalformed == InitMalformed /\ [][Next]_vars

\* ------------------------------------------------------------------------
\* Properties
\* ------------------------------------------------------------------------
\* All bijections of 1..n onto itself.
Bijections(n) == {f \in [1..n -> 1..n] : \A i, j \in 1..n : f[i] = f[j] => i = j}

\* The scored record x is the record of the normalized task t.
RecordOf(x, t) ==
    /\ x.id = t.id
    /\ x.dependencies = t.dependencies
    /\ x.estimated_hours = t.estimated_hours
    /\ x.due_date = (IF t.due_date = NONE THEN <<>> ELSE Ord2Ymd(t.due_date))
    /\ x.importance = (IF t.importance = NONE THEN 5 ELSE t.importance)

\* C1: score_tasks returns exactly one scored record per input task: the
\* output has the length of the input and is the input's records in some
\* order (none dropped, none duplicated), also with shared ids and cycles.
C1_OneRecordPerTask ==
    pc = "scored" =>
        /\ Len(result.tasks) = Len(tasks)
        /\ Len(result.tasks) = Len(raw)
        /\ \E f \in Bijections(Len(tasks)) :
              \A i \in 1..Len(tasks) : RecordOf(result.tasks[f[i]], tasks[i])

\* C1 witness: a scored batch of three tasks, two of which share an id,
\* with a reported dependency cycle.
C1_Witness ==
    /\ pc = "scored"
    /\ Len(result.tasks) = 3
    /\ \E i, j \in 1..Len(tasks) : i # j /\ tasks[i].id = tasks[j].id
    /\ result.cycles # <<>>

\* The ids one forward edge away from the ids of S.
Successors(S, fwd) == UNION {Range(fwd[u]) : u \in S}

RECURSIVE Closure(_, _)
Closure(S, fwd) ==
    IF Successors(S, fwd) \subseteq S THEN S
    ELSE Closure(S \cup Successors(S, fwd), fwd)

\* k lies on a directed cycle of the forward graph (a self-dependency is one).
OnCycle(k, fwd) == k \in Closure(Successors({k}, fwd), fwd)

\* c is a closed walk of the forward graph.
ClosedWalk(c, fwd) ==
    /\ Len(c) >= 2
    /\ c[1] = c[Len(c)]
    /\ \A i \in 1..(Len(c) - 1) : c[i] \in DOMAIN fwd /\ c[i + 1] \in Range(fwd[c[i]])

\* C10: detect_cycles reports a cycle if and only if the forward graph over
\* the ids of the batch has a directed cycle (self-dependency included);
\* every reported cycle is a closed walk of that graph, and two tasks that
\* depend on each other are together in a reported cycle.
C10_CycleReportedIffGraphCyclic ==
    pc = "scored" =>
        LET fwd == Forward(tasks)
        IN  /\ (result.cycles # <<>>) <=> (\E k \in DOMAIN fwd : OnCycle(k, fwd))
            /\ \A i \in 1..Len(result.cycles) : ClosedWalk(result.cycles[i], fwd)
            /\ \A a, b \in DOMAIN fwd :
                  (a \in Range(fwd[b]) /\ b \in Range(fwd[a])) =>
                      \E i \in 1..Len(result.cycles) : {a, b} \subseteq Range(result.cycles[i])

\* C10 witness: two tasks that depend on each other, reported in one cycle,
\* beside a third task that no reported cycle holds.
C10_Witness ==
    /\ pc = "scored"
    /\ \E a, b, c \in DOMAIN Forward(tasks) :
          /\ a # b /\ c \notin {a, b}
          /\ a \in Range(Forward(tasks)[b]) /\ b \in Range(Forward(tasks)[a])
          /\ \E i \in 1..Len(result.cycles) : {a, b} \subseteq Range(result.cycles[i])
          /\ c \notin CycleNodes(result.cycles)

\* The un-penalized weighted base of the task behind the scored record x,
\* under the weights the request resolves to.
BaseOfRecord(x) ==
    Base([due_date        |-> IF x.due_date = <<>> THEN NONE ELSE Ymd2Ord(x.due_date),
          estimated_hours |-> x.estimated_hours,
          importance      |-> x.importance],
         ResolveWeights(strategy), today, MaxHours(tasks), x.dependents)

\* Two scored records with the same due date, estimated hours and importance.
OtherwiseIdentical(a, b) ==
    /\ a.due_date = b.due_date
    /\ a.estimated_hours = b.estimated_hours
    /\ a.importance = b.importance

\* C4 as stated: a task with one or more transitive dependents scores at
\* least as high as an otherwise identical task of the batch with none,
\* for every dependency graph.
C4_Original ==
    pc = "scored" =>
        \A i, j \in 1..Len(result.tasks) :
            LET a == result.tasks[i]
                b == result.tasks[j]
            IN  (a.dependents >= 1 /\ b.dependents = 0 /\ OtherwiseIdentical(a, b))
                    => a.score >= b.score

\* C4 amended: a task with one or more transitive dependents whose id is in
\* no reported cycle scores at least as high as an otherwise identical task
\* of the batch with no dependents.
C4_BlockerBoostOutsideCycles ==
    pc = "scored" =>
        \A i, j \in 1..Len(result.tasks) :
            LET a == result.tasks[i]
                b == result.tasks[j]
            IN  (/\ a.dependents >= 1
                 /\ b.dependents = 0
                 /\ OtherwiseIdentical(a, b)
                 /\ a.id \notin CycleNodes(result.cycles))
                    => a.score >= b.score

\* C4 witness: a task that blocks two others, outside every cycle, ranked
\* strictly above an otherwise identical task that blocks none.
C4_Witness ==
    /\ pc = "scored"
    /\ \E i, j \in 1..Len(result.tasks) :
          /\ result.tasks[i].dependents >= 2
          /\ result.tasks[j].dependents = 0
          /\ OtherwiseIdentical(result.tasks[i], result.tasks[j])
          /\ result.tasks[i].id \notin CycleNodes(result.cycles)
          /\ result.tasks[i].score > result.tasks[j].score

\* C5: the score of a task whose id is in a reported cycle is its weighted
\* base times 0.85, applied once however many reported cycles hold the id;
\* the score of any other task is its weighted base.
C5_CyclePenaltyOnce ==
    pc = "scored" =>
        \A i \in 1..Len(result.tasks) :
            LET x == result.tasks[i]
            IN  IF \E c \in 1..Len(result.cycles) : x.id \in Range(result.cycles[c])
                THEN x.score = RoundScore((BaseOfRecord(x) * 85) \div 100)
                ELSE x.score = RoundScore(BaseOfRecord(x))

\* C5 witness: a task in two reported cycles, scored below its base, beside
\* a task in no cycle.
C5_Witness ==
    /\ pc = "scored"
    /\ \E i, j \in 1..Len(result.tasks) :
          /\ Cardinality({c \in 1..Len(result.cycles) :
                            result.tasks[i].id \in Range(result.cycles[c])}) >= 2
          /\ result.tasks[i].score < RoundScore(BaseOfRecord(result.tasks[i]))
          /\ result.tasks[j].id \notin CycleNodes(result.cycles)

\* The scored record x has a due date.
Dated(x) == x.due_date # <<>>

\* C2 as stated: the returned list is ordered by descending score; among
\* equal scores a is due no later than b, a task without a due date coming
\* after every task that has one; among equal scores and due dates by
\* descending importance (absent importance is 5 in the record).
C2_Original ==
    pc = "scored" =>
        \A i, j \in 1..Len(result.tasks) :
            i < j =>
                LET a == result.tasks[i]
                    b == result.tasks[j]
                IN  /\ a.score >= b.score
                    /\ a.score = b.score =>
                          /\ ~Dated(a) => ~Dated(b)
                          /\ (Dated(a) /\ Dated(b)) =>
                                Ymd2Ord(a.due_date) <= Ymd2Ord(b.due_date)
                    /\ (a.score = b.score /\ a.due_date = b.due_date) =>
                          a.importance >= b.importance

\* The due date a record is ranked by: its own, or 9999-12-31 without one.
RankedDue(x) == IF Dated(x) THEN Ymd2Ord(x.due_date) ELSE Ymd2Ord(<<9999, 12, 31>>)

\* C2 amended: the returned list is ordered by descending score; among
\* equal scores by ascending due date, a task without a due date ranking
\* as if due on 9999-12-31 (after every task due earlier, tied with a task
\* due on that day); among equal scores and such due dates by descending
\* importance.
C2_RankingOrder ==
    pc = "scored" =>
        \A i, j \in 1..Len(result.tasks) :
            i < j =>
                LET a == result.tasks[i]
                    b == result.tasks[j]
                IN  /\ a.score >= b.score
                    /\ a.score = b.score => RankedDue(a) <= RankedDue(b)
                    /\ (a.score = b.score /\ RankedDue(a) = RankedDue(b)) =>
                          a.importance >= b.importance

\* C2 witness: two tasks of equal score placed by their due dates although
\* the later one came first in the input, in a batch that also holds a task
\* without a due date.
C2_Witness ==
    /\ pc = "scored"
    /\ Len(tasks) = 3
    /\ tasks[1].due_date # NONE /\ tasks[2].due_date # NONE
    /\ tasks[1].due_date > tasks[2].due_date
    /\ \E i, j \in 1..3 :
          /\ i < j
          /\ Dated(result.tasks[i]) /\ Dated(result.tasks[j])
          /\ result.tasks[i].score = result.tasks[j].score
          /\ Ymd2Ord(result.tasks[i].due_date) = tasks[2].due_date
          /\ Ymd2Ord(result.tasks[j].due_date) = tasks[1].due_date
    /\ \E k \in 1..3 : ~Dated(result.tasks[k])

\* Working days from the reference date to the due date as the claim counts
\* them: the days from now up to the day before due that are neither a
\* Saturday or Sunday nor one of the six fixed holidays; -1 when overdue.
ClaimedWorkingDays(due, now) ==
    IF due < now THEN -1
    ELSE Cardinality({d \in now..(due - 1) :
            /\ Weekday(d) \notin {5, 6}
            /\ LET ymd == Ord2Ymd(d)
               IN  <<ymd[2], ymd[3]>> \notin
                      {<<1, 1>>, <<1, 26>>, <<5, 1>>, <<8, 15>>, <<10, 2>>, <<12, 25>>}})

\* C9: of two tasks that differ only in their working days until due, the
\* one with fewer (or as many) working days has an urgency factor and a
\* final score that are not lower.
C9_FewerWorkingDaysNotLower ==
    pc = "scored" =>
        \A i, j \in 1..Len(result.tasks) :
            LET a == result.tasks[i]
                b == result.tasks[j]
            IN  (/\ Dated(a) /\ Dated(b)
                 /\ a.estimated_hours = b.estimated_hours
                 /\ a.importance = b.importance
                 /\ a.dependents = b.dependents
                 /\ (a.id \in CycleNodes(result.cycles)) = (b.id \in CycleNodes(result.cycles))
                 /\ ClaimedWorkingDays(Ymd2Ord(a.due_date), today)
                        <= ClaimedWorkingDays(Ymd2Ord(b.due_date), today))
                    => /\ Urgency(Ymd2Ord(a.due_date), today)
                             >= Urgency(Ymd2Ord(b.due_date), today)
                       /\ a.score >= b.score

\* C9 witness: two tasks alike but for the due date, the nearer one two
\* calendar days and (a holiday between) one working day away, scored
\* strictly higher than the farther one.
C9_Witness ==
    /\ pc = "scored"
    /\ \E i, j \in 1..Len(result.tasks) :
          LET a == result.tasks[i]
              b == result.tasks[j]
          IN  /\ Dated(a) /\ Dated(b)
              /\ a.estimated_hours = b.estimated_hours
              /\ a.importance = b.importance
              /\ Ymd2Ord(a.due_date) = today + 2
              /\ ClaimedWorkingDays(Ymd2Ord(a.due_date), today) = 1
              /\ ClaimedWorkingDays(Ymd2Ord(b.due_date), today) > 1
              /\ a.score > b.score

\* Two names equal up to the case of their letters.
SameIgnoringCase(a, b) ==
    /\ Len(a) = Len(b)
    /\ \A i \in 1..Len(a) :
          \/ a[i] = b[i]
          \/ \E c \in 1..26 : {a[i], b[i]} = {UpperCase[c], LowerCase[c]}

\* The supplied name is the strategy k, up to case and surrounding whitespace.
Matches(name, k) ==
    \E lo, hi \in 0..Len(name) :
        /\ lo + hi <= Len(name)
        /\ \A i \in 1..lo : name[i] \in Whitespace
        /\ \A i \in (Len(name) - hi + 1)..Len(name) : name[i] \in Whitespace
        /\ SameIgnoringCase(SubSeq(name, lo + 1, Len(name) - hi), k)

\* No strategy is named: the name is absent, empty or matches none of the four.
FallsBack(s) ==
    \/ ~s.given
    \/ s.name = <<>>
    \/ \A k \in DOMAIN STRATEGY_WEIGHTS : ~Matches(s.name, k)

\* The score of the record x under the weights w.
ScoreUnder(x, w) ==
    RoundScore(Final(
        Base([due_date        |-> IF x.due_date = <<>> THEN NONE ELSE Ymd2Ord(x.due_date),
              estimated_hours |-> x.estimated_hours,
              importance      |-> x.importance],
             w, today, MaxHours(tasks), x.dependents),
        IF x.id \in CycleNodes(result.cycles) THEN 15 ELSE 0))

\* C6 as stated: strategy_used is the strategy whose weights were applied,
\* always one of the four names, and smart_balance whenever the supplied
\* name is absent, empty or not in the enumeration.
C6_Original ==
    pc = "scored" =>
        /\ result.strategy_used \in DOMAIN STRATEGY_WEIGHTS
        /\ FallsBack(strategy) => result.strategy_used = SmartBalance
        /\ \A k \in DOMAIN STRATEGY_WEIGHTS :
              (strategy.given /\ Matches(strategy.name, k)) => result.strategy_used = k

\* C7: whatever the strategy name, score_tasks returns a record per task; a
\* name that is one of the four strategies up to case (and surrounding
\* whitespace) scores every task with that strategy's weights, any other
\* name, an empty or an absent one with the smart_balance weights
\* 0.40, 0.35, 0.15, 0.10.
C7_UnknownStrategyFallsBack ==
    pc = "scored" =>
        /\ Len(result.tasks) = Len(tasks)
        /\ FallsBack(strategy) =>
              \A i \in 1..Len(result.tasks) :
                  result.tasks[i].score = ScoreUnder(result.tasks[i], Weights(40, 35, 15, 10))
        /\ \A k \in DOMAIN STRATEGY_WEIGHTS :
              (strategy.given /\ Matches(strategy.name, k)) =>
                  \A i \in 1..Len(result.tasks) :
                      result.tasks[i].score = ScoreUnder(result.tasks[i], STRATEGY_WEIGHTS[k])

\* C7 witness: a scored batch under a name that is no strategy, whose
\* scores are those of smart_balance and not those of fastest_wins.
C7_Witness ==
    /\ pc = "scored"
    /\ strategy = Given(<<"f", "o", "o">>)
    /\ Len(result.tasks) = 2
    /\ \A i \in 1..2 :
          /\ result.tasks[i].score = ScoreUnder(result.tasks[i], Weights(40, 35, 15, 10))
          /\ result.tasks[i].score # ScoreUnder(result.tasks[i], STRATEGY_WEIGHTS[FastestWins])

\* C3 as stated: after normalize_tasks the ids of a batch are pairwise
\* distinct, auto-assigned ids included.
C3_Original ==
    pc # "received" =>
        \A i, j \in 1..Len(tasks) : i # j => tasks[i].id # tasks[j].id

\* The raw value is present and not empty (not None, "" or []).
PresentNonEmpty(v) == v.kind \notin {"absent", "none", "emptystr", "emptylist"}

\* The words of part occur in text, consecutively.
Contains(text, part) ==
    \E k \in 0..(Len(text) - Len(part)) :
        \A i \in 1..Len(part) : text[k + i] = part[i]

\* A warning of the task with id tid whose text holds the words of part.
Warned(tid, part) ==
    \E k \in 1..Len(warnings) :
        /\ warnings[k].at = "task"
        /\ warnings[k].ref = tid
        /\ Contains(warnings[k].text, part)

\* C8 as stated: for every record and each of due_date, estimated_hours,
\* importance and dependencies whose value is present, non-empty and invalid
\* (unparsable date, non-positive or non-numeric hours, non-numeric
\* importance, non-list dependencies) the normalized task has the field
\* absent (dependencies empty) and the warnings hold a warning for that
\* field of that task; for due_date it holds the words "invalid due_date".
C8_Original ==
    pc # "received" =>
        /\ Len(tasks) = Len(raw)
        /\ \A i \in 1..Len(raw) :
              LET t == raw[i]
                  n == tasks[i]
              IN  /\ (/\ PresentNonEmpty(t.due_date)
                      /\ ~(t.due_date.kind = "datestr" /\ ValidYmd(t.due_date.ymd)))
                         => (n.due_date = NONE /\ Warned(n.id, <<"invalid", "due_date">>))
                  /\ (/\ PresentNonEmpty(t.estimated_hours)
                      /\ (~Numeric(t.estimated_hours) \/ t.estimated_hours.n <= 0))
                         => (n.estimated_hours = NONE /\ Warned(n.id, <<"estimated_hours">>))
                  /\ (PresentNonEmpty(t.importance) /\ ~Numeric(t.importance))
                         => (n.importance = NONE /\ Warned(n.id, <<"importance">>))
                  /\ (PresentNonEmpty(t.dependencies) /\ ~IsList(t.dependencies))
                         => (n.dependencies = <<>> /\ Warned(n.id, <<"dependencies">>))

\* C11 as stated: every task whose id lies on a directed cycle of the
\* forward graph is in at least one cycle reported by detect_cycles, and its
\* score is its weighted base with the cycle penalty applied, for every
\* order of the tasks and of their dependency lists.
C11_Original ==
    pc = "scored" =>
        LET fwd == Forward(tasks)
        IN  \A i \in 1..Len(result.tasks) :
                LET x == result.tasks[i]
                IN  OnCycle(x.id, fwd) =>
                        /\ \E c \in 1..Len(result.cycles) : x.id \in Range(result.cycles[c])
                        /\ x.score = RoundScore((BaseOfRecord(x) * 85) \div 100)

\* The ids other than k that depend on k directly or transitively: those
\* from which k is reached along forward edges.
OtherDependents(k, fwd) ==
    {d \in DOMAIN fwd \ {k} : k \in Closure(Successors({d}, fwd), fwd)}

\* C12 as stated: in a batch of tasks with distinct ids, the dependents
\* value of every scored record is the number of other tasks of the batch
\* that depend on it directly or transitively, each counted once, also with
\* cycles and duplicate dependency entries.
C12_Original ==
    pc = "scored" =>
        /\ Len(result.tasks) = Len(tasks)
        /\ \A i \in 1..Len(result.tasks) :
              result.tasks[i].dependents =
                  Cardinality(OtherDependents(result.tasks[i].id, Forward(tasks)))

====
